---- MODULE Spec2Model ----
(***************************************************************************)
(* A model of the ADSR envelope assembler of music/core/filters/adsr.py:   *)
(* adsr (lines 7-118) and adsr_stereo (lines 124-144).                     *)
(*                                                                         *)
(* One call of an entry point is one behaviour: Init draws the arguments   *)
(* of the call, and the actions are the statements of the function body,   *)
(* in program order, so that "what has been computed when an exception is  *)
(* raised" is visible in the state.                                        *)
(*                                                                         *)
(* Python values are tagged: [tag |-> "scalar" | "list" | "ndarray" |      *)
(* "tuple", v |-> <<...>>] (a scalar x is v = <<x>>), because the code     *)
(* dispatches on type(sonic_vector) and because / and * act differently on *)
(* Python lists and numpy arrays.                                          *)
(*                                                                         *)
(* Samples are symbolic terms (records tagged by the field t), never       *)
(* rounded numbers: two samples are equal exactly when they were computed  *)
(* the same way from the same arguments.                                   *)
(*                                                                         *)
(* fade and loud (music/core/filters/fade.py and loud.py) are imported by  *)
(* adsr.py but their source is not part of src/; they are modelled from    *)
(* sections 4.1 and 4.2 of the specification.                              *)
(***************************************************************************)
EXTENDS Integers, Sequences

VARIABLES
    entry,    \* the entry point called: "adsr" or "adsr_stereo"
    args,     \* the keyword arguments of the call
    pc,       \* the statement about to run
    chan,     \* 0: adsr called directly; 1, 2: the call at line 139 / 141
    sv,       \* sonic_vector of the running adsr call
    loc,      \* the locals of the running adsr call
    calls,    \* the calls of fade and loud made so far, with their arguments
    st,       \* the locals s1, s2 of adsr_stereo
    out       \* the outcome of the entry point

vars == <<entry, args, pc, chan, sv, loc, calls, st, out>>

----------------------------------------------------------------------------
(* Bounds of the model.                                                    *)

MaxSamples == 2          \* number_of_samples is drawn from 0..MaxSamples
MaxSigLen == 4           \* the longest signal buffer supplied

----------------------------------------------------------------------------
(* Python values.                                                          *)

Scalar(x) == [tag |-> "scalar", v |-> <<x>>]
List(s) == [tag |-> "list", v |-> s]
NdArray(s) == [tag |-> "ndarray", v |-> s]
Tuple(s) == [tag |-> "tuple", v |-> s]

\* A fraction num/den, kept unevaluated; den = 0 is numpy's inf or nan.
Frac(n, d) == <<n, d>>

\* type(x) in (np.ndarray, list)
IsArrayOrList(x) == x.tag \in {"ndarray", "list"}

\* n/d, d > 0, rounded to the nearest integer (a half goes up).
IntRound(n, d) == IF 2 * (n % d) >= d THEN (n \div d) + 1 ELSE n \div d

\* Python's int() of the quotient n/d, d > 0: truncation toward zero. The
\* code forms the quotient in floating point (duration * sample_rate * 0.001);
\* for the integer durations and rates drawn here the float product is within
\* 1e-12 of n/d and never below an integer n/d, so int() of it is this value.
IntTrunc(n, d) == IF n >= 0 THEN n \div d ELSE -((-n) \div d)

NoExc == "none"

----------------------------------------------------------------------------
(* adsr, lines 93-101: the total length and the segment lengths.           *)

\* lines 93-98
TotalLength(a, s) ==
    IF IsArrayOrList(s)
    THEN Len(s.v)
    ELSE IF a.number_of_samples # 0
         THEN a.number_of_samples
         ELSE IntTrunc(a.envelope_duration[1] * a.sample_rate,
                       a.envelope_duration[2])

\* lines 99-101, with round() in the place of int()
SegRound(ms, rate) == IntRound(ms * rate, 1000)
\* lines 99-101: int(duration * sample_rate * 0.001)
SegmentSamples(ms, rate) == IntTrunc(ms * rate, 1000)

----------------------------------------------------------------------------
(* fade and loud, modelled from the specification (sections 4.1, 4.2).     *)

\* What a generator does not read: alpha, dB and perc of a linear transition.
Ignored == [tag |-> "ignored", v |-> <<>>]

IsLinear(method) == method = "linear"

FadeCall(fade_out, method, alpha, dB, perc, n) ==
    [fn |-> "fade", fade_out |-> fade_out, method |-> method, alpha |-> alpha,
     dB |-> dB, perc |-> perc, trans_dev |-> 0, number_of_samples |-> n]

LoudCall(trans_dev, method, alpha, n) ==
    [fn |-> "loud", fade_out |-> 0, method |-> method, alpha |-> alpha,
     dB |-> Ignored, perc |-> Ignored, trans_dev |-> trans_dev,
     number_of_samples |-> n]

\* The contract of 4.1 and 4.2: N >= 0 samples are asked for, and the shape
\* parameters a non-linear transition reads are single values.
InContract(c) ==
    /\ c.number_of_samples >= 0
    /\ \/ IsLinear(c.method)
       \/ /\ c.alpha.tag = "scalar"
          /\ c.dB.tag \in {"scalar", "ignored"}
          /\ c.perc.tag \in {"scalar", "ignored"}

\* Outside the contract the specification fixes nothing: the generator may
\* raise or may return a buffer.
MayRaise(c) == ~InContract(c)

\* The i-th sample of the segment a call produces.
GenSample(c, i) ==
    [t |-> c.fn, fade_out |-> c.fade_out, method |-> c.method,
     alpha |-> IF IsLinear(c.method) THEN Ignored ELSE c.alpha,
     dB |-> IF IsLinear(c.method) THEN Ignored ELSE c.dB,
     perc |-> IF IsLinear(c.method) THEN Ignored ELSE c.perc,
     trans_dev |-> c.trans_dev, n |-> c.number_of_samples, i |-> i]

\* "N = 0 -> empty sequence"; exactly N samples otherwise.
GenLength(c) == IF c.number_of_samples >= 0 THEN c.number_of_samples ELSE 0

Generate(c) == [i \in 1..GenLength(c) |-> GenSample(c, i)]

----------------------------------------------------------------------------
(* adsr, lines 103-118: the segments, their concatenation, the product.    *)

\* lines 103 and 111: to_zero / duration, duration a Python number.
\* A Python list or tuple cannot be divided (TypeError); a numpy array is
\* divided element by element and never raises; a number divided by 0
\* raises ZeroDivisionError.
PercExc(to_zero, duration) ==
    IF to_zero.tag \in {"list", "tuple"} THEN "TypeError"
    ELSE IF to_zero.tag = "scalar" /\ duration = 0 THEN "ZeroDivisionError"
    ELSE NoExc

Perc(to_zero, duration) ==
    [tag |-> to_zero.tag,
     v |-> [i \in 1..Len(to_zero.v) |-> Frac(to_zero.v[i], duration)]]

\* line 104
AttackCall(a, perc, n) == FadeCall(0, a.transition, a.alpha, a.db_dev, perc, n)

\* line 106
DecayCall(a, n) == LoudCall(a.sustain_level, a.transition, a.alpha, n)

\* line 108: 10 ** (sustain_level / 20.)
Amp(level) == [t |-> "amp", dB |-> level]

\* line 109, with the decay samples left out of the remainder
SustainLenNoDecay(L, LA, LD, LR) == L - (LA + LR)
\* line 109: Lambda - (Lambda_A + Lambda_R + Lambda_D)
SustainLen(L, LA, LD, LR) == L - (LA + LR + LD)

\* line 109, with a negative length clamped to 0 instead of refused
OnesExcClamped(n) == NoExc
\* line 109: np.ones(n) raises ValueError for a negative n.
OnesExc(n) == IF n < 0 THEN "ValueError" ELSE NoExc

\* line 109: np.ones(n) * a_S
Sustain(n, a_S) == [i \in 1..(IF n >= 0 THEN n ELSE 0) |-> [t |-> "ones", by |-> a_S]]

\* line 112: fade's fade_out is left to its default, a fade-out (4.3 step 6).
ReleaseCall(a, perc, n) == FadeCall(1, a.transition, a.alpha, a.db_dev, perc, n)

\* line 112: fade(...) * a_S
Scaled(buf, a_S) == [i \in 1..Len(buf) |-> [t |-> "scaled", x |-> buf[i], by |-> a_S]]

\* line 114: np.hstack
HStack(b1, b2, b3, b4) == b1 \o b2 \o b3 \o b4

\* line 116: sonic_vector * AD, numpy's element-wise product. Shapes (m,) and
\* (n,) go together when m = n or one of them is 1 (broadcasting).
TimesExc(s, AD) ==
    IF Len(s) = Len(AD) \/ Len(s) = 1 \/ Len(AD) = 1 THEN NoExc ELSE "ValueError"

Times(s, AD) ==
    LET n == IF Len(s) = 1 THEN Len(AD) ELSE Len(s)
    IN [i \in 1..n |-> [t |-> "prod",
                        s |-> IF Len(s) = 1 THEN s[1] ELSE s[i],
                        e |-> IF Len(AD) = 1 THEN AD[1] ELSE AD[i]]]

\* lines 115-118
ResultExc(s, AD) == IF IsArrayOrList(s) THEN TimesExc(s.v, AD) ELSE NoExc
Result(s, AD) == IF IsArrayOrList(s) THEN Times(s.v, AD) ELSE AD

----------------------------------------------------------------------------
(* The arguments a call is made with.                                      *)

\* A signal buffer of n samples; the samples are told apart by their value.
Signal(n, base) == [i \in 1..n |-> base + i]

SampleRates == {0, 1, 2}
\* envelope_duration, seconds, as <<numerator, denominator>>
EnvelopeDurations == {<<-1, 1>>, <<0, 1>>, <<1, 1>>, <<7, 4>>}
\* attack_duration, decay_duration, release_duration, milliseconds
AttackDurations == {-500, 0, 750, 1000, 3000}
DecayDurations == {0, 500, 3000}
ReleaseDurations == {0, 750, 3000}
SustainLevels == {-5}
Transitions == {"exp", "linear"}
SampleCounts == 0..MaxSamples

DefaultShape == <<Scalar(1), Scalar(-80), Scalar(1)>>
\* alpha, db_dev, to_zero: one of the three is array-like, of the documented
\* length or of another.
ArrayShapes ==
    {<<al, DefaultShape[2], DefaultShape[3]>> :
        al \in {List(<<1, 2, 3>>), List(<<1, 2>>)}}
    \cup {<<DefaultShape[1], db, DefaultShape[3]>> :
        db \in {List(<<-80, -40>>), List(<<-80>>)}}
    \cup {<<DefaultShape[1], DefaultShape[2], tz>> :
        tz \in {List(<<1, 2>>), NdArray(<<1, 2>>), NdArray(<<1>>)}}

\* sonic_vector of adsr: the placeholder 0, or a buffer as a list, a numpy
\* array or a tuple.
MonoSignals ==
    {Scalar(0), List(<<>>), List(Signal(MaxSigLen, 10)),
     NdArray(Signal(MaxSigLen, 10)), Tuple(Signal(MaxSigLen, 10))}

\* sonic_vector of adsr_stereo: the placeholder 0, or two channels as a
\* 2-row numpy array, a list of two lists or a tuple of two numpy arrays.
StereoSignals ==
    {Scalar(0),
     NdArray(<<NdArray(Signal(MaxSigLen, 10)), NdArray(Signal(MaxSigLen, 20))>>),
     List(<<List(Signal(MaxSigLen, 10)), List(Signal(MaxSigLen, 20))>>),
     Tuple(<<NdArray(Signal(MaxSigLen, 10)), NdArray(Signal(MaxSigLen, 20))>>)}

Args(d, A, D, S, R, tr, sh, n, s, fs) ==
    [envelope_duration |-> d, attack_duration |-> A, decay_duration |-> D,
     sustain_level |-> S, release_duration |-> R, transition |-> tr,
     alpha |-> sh[1], db_dev |-> sh[2], to_zero |-> sh[3],
     number_of_samples |-> n, sonic_vector |-> s, sample_rate |-> fs]

\* Calls of adsr that vary the durations, the sample rate and the length
\* sources, with scalar shape parameters.
TimingArgs ==
    {Args(d, A, D, S, R, tr, DefaultShape, n, s, fs) :
        d \in EnvelopeDurations, A \in AttackDurations, D \in DecayDurations,
        S \in SustainLevels, R \in ReleaseDurations, tr \in Transitions,
        n \in SampleCounts, s \in MonoSignals, fs \in SampleRates}

\* Calls of adsr that vary the array-like shape parameters.
ShapeArgs ==
    {Args(<<7, 4>>, A, 500, S, 750, tr, sh, n, s, fs) :
        A \in {0, 1000}, S \in SustainLevels, tr \in Transitions,
        sh \in ArrayShapes, n \in {0, MaxSamples},
        s \in {Scalar(0), NdArray(Signal(MaxSigLen, 10))}, fs \in {1, 2}}

\* Calls of adsr_stereo (its duration is adsr's envelope_duration).
StereoArgs ==
    {Args(d, A, D, S, 750, tr, sh, n, s, fs) :
        d \in {<<0, 1>>, <<7, 4>>}, A \in {0, 750, 1000}, D \in {0, 500},
        S \in SustainLevels, tr \in Transitions,
        sh \in {DefaultShape, <<List(<<1, 2, 3>>), Scalar(-80), Scalar(1)>>},
        n \in SampleCounts, s \in StereoSignals, fs \in {1, 2}}

Calls ==
    ({"adsr"} \X (TimingArgs \cup ShapeArgs)) \cup ({"adsr_stereo"} \X StereoArgs)

----------------------------------------------------------------------------
(* The state machine.                                                      *)

\* The whole of adsr (lines 93-118) as a function of its arguments: the
\* envelope it assembles and the value it returns when nothing raises.
AdsrEnvelope(a, s) ==
    LET L == TotalLength(a, s)
        LA == SegmentSamples(a.attack_duration, a.sample_rate)
        LD == SegmentSamples(a.decay_duration, a.sample_rate)
        LR == SegmentSamples(a.release_duration, a.sample_rate)
    IN HStack(Generate(AttackCall(a, Perc(a.to_zero, a.attack_duration), LA)),
              Generate(DecayCall(a, LD)),
              Sustain(SustainLen(L, LA, LD, LR), Amp(a.sustain_level)),
              Scaled(Generate(ReleaseCall(a, Perc(a.to_zero, a.release_duration), LR)),
                     Amp(a.sustain_level)))

AdsrValue(a, s) == Result(s, AdsrEnvelope(a, s))

LocInit ==
    [Lambda |-> 0, Lambda_A |-> 0, Lambda_D |-> 0, Lambda_R |-> 0,
     attack |-> <<>>, decay |-> <<>>, sustain |-> <<>>, release |-> <<>>]

StInit ==
    [sonic_vector1 |-> Scalar(0), sonic_vector2 |-> Scalar(0),
     s1 |-> <<>>, s2 |-> <<>>]

Pending == [status |-> "running", exc |-> NoExc, value |-> <<>>]
Raised(e) == [status |-> "raised", exc |-> e, value |-> <<>>]
Returned(v) == [status |-> "returned", exc |-> NoExc, value |-> v]

Init ==
    /\ \E c \in Calls : entry = c[1] /\ args = c[2]
    /\ pc = IF entry = "adsr" THEN "L93" ELSE "L133"
    /\ chan = 0
    /\ sv = IF entry = "adsr" THEN args.sonic_vector ELSE Scalar(0)
    /\ loc = LocInit
    /\ calls = <<>>
    /\ st = StInit
    /\ out = Pending

\* An exception leaves adsr, and adsr_stereo does not catch it.
Raise(e) ==
    /\ pc' = "done"
    /\ out' = Raised(e)
    /\ UNCHANGED <<entry, args, chan, sv, st>>

\* lines 93-98
ComputeLambda ==
    /\ pc = "L93"
    /\ loc' = [loc EXCEPT !.Lambda = TotalLength(args, sv)]
    /\ pc' = "L99"
    /\ UNCHANGED <<entry, args, chan, sv, calls, st, out>>

\* lines 99-101
ComputeSegmentLengths ==
    /\ pc = "L99"
    /\ loc' = [loc EXCEPT
                 !.Lambda_A = SegmentSamples(args.attack_duration, args.sample_rate),
                 !.Lambda_D = SegmentSamples(args.decay_duration, args.sample_rate),
                 !.Lambda_R = SegmentSamples(args.release_duration, args.sample_rate)]
    /\ pc' = "L103"
    /\ UNCHANGED <<entry, args, chan, sv, calls, st, out>>

\* A call of fade or loud: it is made, and it returns its segment or, outside
\* its contract, may raise.
CallGenerator(c, raises) ==
    /\ calls' = Append(calls, c)
    /\ raises \in {FALSE} \cup (IF MayRaise(c) THEN {TRUE} ELSE {})

\* lines 103-104
Attack ==
    /\ pc = "L103"
    /\ IF PercExc(args.to_zero, args.attack_duration) # NoExc
       THEN /\ Raise(PercExc(args.to_zero, args.attack_duration))
            /\ UNCHANGED <<loc, calls>>
       ELSE \E raises \in BOOLEAN :
              LET c == AttackCall(args, Perc(args.to_zero, args.attack_duration),
                                  loc.Lambda_A)
              IN /\ CallGenerator(c, raises)
                 /\ IF raises
                    THEN Raise("GeneratorError") /\ UNCHANGED loc
                    ELSE /\ loc' = [loc EXCEPT !.attack = Generate(c)]
                         /\ pc' = "L106"
                         /\ UNCHANGED <<entry, args, chan, sv, st, out>>

\* line 106
Decay ==
    /\ pc = "L106"
    /\ \E raises \in BOOLEAN :
         LET c == DecayCall(args, loc.Lambda_D)
         IN /\ CallGenerator(c, raises)
            /\ IF raises
               THEN Raise("GeneratorError") /\ UNCHANGED loc
               ELSE /\ loc' = [loc EXCEPT !.decay = Generate(c)]
                    /\ pc' = "L108"
                    /\ UNCHANGED <<entry, args, chan, sv, st, out>>

\* lines 108-109
SustainSegment ==
    /\ pc = "L108"
    /\ LET n == SustainLen(loc.Lambda, loc.Lambda_A, loc.Lambda_D, loc.Lambda_R)
       IN IF OnesExc(n) # NoExc
          THEN Raise(OnesExc(n)) /\ UNCHANGED <<loc, calls>>
          ELSE /\ loc' = [loc EXCEPT !.sustain = Sustain(n, Amp(args.sustain_level))]
               /\ pc' = "L111"
               /\ UNCHANGED <<entry, args, chan, sv, calls, st, out>>

\* lines 111-112
Release ==
    /\ pc = "L111"
    /\ IF PercExc(args.to_zero, args.release_duration) # NoExc
       THEN /\ Raise(PercExc(args.to_zero, args.release_duration))
            /\ UNCHANGED <<loc, calls>>
       ELSE \E raises \in BOOLEAN :
              LET c == ReleaseCall(args, Perc(args.to_zero, args.release_duration),
                                   loc.Lambda_R)
              IN /\ CallGenerator(c, raises)
                 /\ IF raises
                    THEN Raise("GeneratorError") /\ UNCHANGED loc
                    ELSE /\ loc' = [loc EXCEPT
                                      !.release = Scaled(Generate(c),
                                                         Amp(args.sustain_level))]
                         /\ pc' = "L114"
                         /\ UNCHANGED <<entry, args, chan, sv, st, out>>

\* lines 114-118; the value goes to the caller: out of the entry point
\* (chan = 0), or into s1 (line 139) or s2 (line 141) of adsr_stereo.
Return ==
    /\ pc = "L114"
    /\ LET AD == HStack(loc.attack, loc.decay, loc.sustain, loc.release)
       IN IF ResultExc(sv, AD) # NoExc
          THEN Raise(ResultExc(sv, AD))
          ELSE /\ pc' = IF chan = 0 THEN "done" ELSE IF chan = 1 THEN "L141" ELSE "L143"
               /\ out' = IF chan = 0 THEN Returned(Result(sv, AD)) ELSE out
               /\ st' = IF chan = 1 THEN [st EXCEPT !.s1 = Result(sv, AD)]
                        ELSE IF chan = 2 THEN [st EXCEPT !.s2 = Result(sv, AD)]
                        ELSE st
               /\ UNCHANGED <<entry, args, chan, sv>>
    /\ UNCHANGED <<loc, calls>>

\* adsr_stereo, lines 133-138
StereoSplit ==
    /\ pc = "L133"
    /\ st' = IF IsArrayOrList(args.sonic_vector)
             THEN [st EXCEPT !.sonic_vector1 = args.sonic_vector.v[1],
                             !.sonic_vector2 = args.sonic_vector.v[2]]
             ELSE [st EXCEPT !.sonic_vector1 = Scalar(0),
                             !.sonic_vector2 = Scalar(0)]
    /\ pc' = "L139"
    /\ UNCHANGED <<entry, args, chan, sv, loc, calls, out>>

\* adsr_stereo, lines 139-142: adsr is entered with the channel's signal and
\* the arguments of adsr_stereo unchanged.
StereoCall ==
    /\ pc \in {"L139", "L141"}
    /\ chan' = IF pc = "L139" THEN 1 ELSE 2
    /\ sv' = IF pc = "L139" THEN st.sonic_vector1 ELSE st.sonic_vector2
    /\ loc' = LocInit
    /\ pc' = "L93"
    /\ UNCHANGED <<entry, args, calls, st, out>>

\* np.vstack needs rows of one length.
VStackExc(r1, r2) == IF Len(r1) = Len(r2) THEN NoExc ELSE "ValueError"

\* adsr_stereo, lines 143-144
StereoStack ==
    /\ pc = "L143"
    /\ out' = IF VStackExc(st.s1, st.s2) # NoExc
              THEN Raised(VStackExc(st.s1, st.s2))
              ELSE Returned(<<st.s1, st.s2>>)
    /\ pc' = "done"
    /\ UNCHANGED <<entry, args, chan, sv, loc, calls, st>>

Next ==
    \/ ComputeLambda
    \/ ComputeSegmentLengths
    \/ Attack
    \/ Decay
    \/ SustainSegment
    \/ Release
    \/ Return
    \/ StereoSplit
    \/ StereoCall
    \/ StereoStack

Spec == Init /\ [][Next]_vars

----------------------------------------------------------------------------
(* Vocabulary of the properties.                                           *)

AdsrDone == entry = "adsr" /\ pc = "done"
AdsrReturned == AdsrDone /\ out.status = "returned"
LengthsKnown == entry = "adsr" /\ pc \notin {"L93", "L99"}

\* fade and loud were only used within the contract of sections 4.1, 4.2.
GeneratorsInContract == \A i \in 1..Len(calls) : InContract(calls[i])

ScalarShapes ==
    /\ args.alpha.tag = "scalar"
    /\ args.db_dev.tag = "scalar"
    /\ args.to_zero.tag = "scalar"

NonNegativeDurations ==
    /\ args.envelope_duration[1] >= 0
    /\ args.attack_duration >= 0
    /\ args.decay_duration >= 0
    /\ args.release_duration >= 0

SegmentsFit == loc.Lambda_A + loc.Lambda_D + loc.Lambda_R <= loc.Lambda

ValidConfig == args.sample_rate > 0 /\ NonNegativeDurations /\ SegmentsFit

----------------------------------------------------------------------------
C2_NegativeRemainderRaises ==
    (AdsrDone /\ ~SegmentsFit) => out.status = "raised"

\* The example of the specification, attack = decay = release = 3000 ms and
\* envelope_duration = 1 s, ended in the ValueError of line 109.
C2_Witness ==
    /\ AdsrDone /\ ~SegmentsFit
    /\ args.attack_duration = 3000 /\ args.decay_duration = 3000
    /\ args.release_duration = 3000 /\ args.envelope_duration = <<1, 1>>
    /\ args.number_of_samples = 0 /\ sv = Scalar(0) /\ args.sample_rate > 0
    /\ out = Raised("ValueError")
    /\ Len(calls) = 2

(* C3: Lambda is chosen by strict precedence: the length of the signal     *)
(* buffer when one is given, in whatever form (list, numpy array, tuple,   *)
(* empty or not); else number_of_samples when it is nonzero; else          *)
(* envelope_duration x sample_rate.                                        *)
C3_LambdaPrecedence ==
    (entry = "adsr" /\ pc # "L93" /\ args.sample_rate > 0 /\ NonNegativeDurations) =>
        loc.Lambda =
            IF sv.tag # "scalar" THEN Len(sv.v)
            ELSE IF args.number_of_samples # 0 THEN args.number_of_samples
            ELSE IntTrunc(args.envelope_duration[1] * args.sample_rate,
                          args.envelope_duration[2])

(* C4: for a signal buffer of length L and a configuration valid for L,    *)
(* what adsr returns has length L and its i-th sample is signal[i] times   *)
(* the i-th sample of the envelope adsr returns for the same configuration *)
(* with no signal and number_of_samples = L.                               *)
C4_AppliesEnvelopeToSignal ==
    LET L == Len(sv.v)
        envelope == AdsrValue([args EXCEPT !.number_of_samples = L], Scalar(0))
    IN (/\ AdsrReturned /\ sv.tag # "scalar" /\ GeneratorsInContract
        /\ args.sample_rate > 0 /\ NonNegativeDurations
        /\ loc.Lambda_A + loc.Lambda_D + loc.Lambda_R <= L) =>
           /\ Len(out.value) = L
           /\ \A i \in 1..L :
                out.value[i] = [t |-> "prod", s |-> sv.v[i], e |-> envelope[i]]

(* C5: adsr_stereo on a pair (sig1, sig2) returns two rows, row 0 what     *)
(* adsr returns for sig1 and row 1 what adsr returns for sig2 with the     *)
(* same arguments; on the scalar placeholder both rows are the envelope    *)
(* adsr returns with no signal.                                            *)
C5_StereoRowsAreAdsrOfChannels ==
    (/\ entry = "adsr_stereo" /\ pc = "done" /\ out.status = "returned"
     /\ GeneratorsInContract) =>
        /\ Len(out.value) = 2
        /\ IF args.sonic_vector.tag = "scalar"
           THEN /\ out.value[1] = AdsrValue(args, Scalar(0))
                /\ out.value[2] = AdsrValue(args, Scalar(0))
           ELSE /\ out.value[1] = AdsrValue(args, args.sonic_vector.v[1])
                /\ out.value[2] = AdsrValue(args, args.sonic_vector.v[2])

(* C6: a zero-length request (number_of_samples = 0, no signal buffer,     *)
(* envelope_duration x sample_rate of 0 samples, attack, decay and release *)
(* of 0 samples) returns an empty buffer and raises nothing.               *)
C6_ZeroLengthReturnsEmpty ==
    (/\ AdsrDone /\ ScalarShapes
     /\ args.sample_rate > 0 /\ NonNegativeDurations
     /\ args.number_of_samples = 0 /\ sv = Scalar(0)
     /\ loc.Lambda = 0
     /\ loc.Lambda_A = 0 /\ loc.Lambda_D = 0 /\ loc.Lambda_R = 0) =>
        out = Returned(<<>>)

(* C7: given a non-positive sample rate or a negative attack, decay,       *)
(* release or envelope duration, adsr raises before fade or loud is called *)
(* and before the sustain segment is computed, and returns no buffer.      *)
C7_InvalidInputRejectedFirst ==
    (/\ entry = "adsr" /\ GeneratorsInContract
     /\ (args.sample_rate <= 0 \/ ~NonNegativeDurations)) =>
        /\ calls = <<>>
        /\ pc \notin {"L106", "L108", "L111", "L114"}
        /\ out.status # "returned"

(* C8: an array-like alpha whose length is not 3, or an array-like db_dev  *)
(* or to_zero whose length is not 2, makes adsr raise and return no        *)
(* buffer. Stated for the linear transitions, where fade and loud do not   *)
(* read the three parameters (docstring, lines 37, 45 and 52).             *)
C8_WrongArityRaises ==
    (/\ AdsrDone /\ IsLinear(args.transition)
     /\ \/ args.alpha.tag # "scalar" /\ Len(args.alpha.v) # 3
        \/ args.db_dev.tag # "scalar" /\ Len(args.db_dev.v) # 2
        \/ args.to_zero.tag # "scalar" /\ Len(args.to_zero.v) # 2) =>
        out.status = "raised"

\* The k-th value of an array-like parameter; a scalar is passed unchanged.
Slice(x, k) == IF x.tag = "scalar" THEN x ELSE Scalar(x.v[k])

\* The call c as it would be made with the slices of its segment.
SlicedCall(c) ==
    IF c.fn = "loud"
    THEN LoudCall(args.sustain_level, args.transition, Slice(args.alpha, 2),
                  c.number_of_samples)
    ELSE IF c.fade_out = 0
    THEN FadeCall(0, args.transition, Slice(args.alpha, 1), Slice(args.db_dev, 1),
                  Slice(Perc(args.to_zero, args.attack_duration), 1),
                  c.number_of_samples)
    ELSE FadeCall(1, args.transition, Slice(args.alpha, 3), Slice(args.db_dev, 2),
                  Slice(Perc(args.to_zero, args.release_duration), 2),
                  c.number_of_samples)

(* C9: every segment generator receives its own slice of alpha, db_dev and *)
(* to_zero: a scalar unchanged; of a 3-element alpha the first value for   *)
(* the attack fade, the second for the decay, the third for the release    *)
(* fade; of a 2-element db_dev or to_zero the first value for the attack   *)
(* and the second for the release. None receives the whole array.          *)
C9_GeneratorsReceiveSlices ==
    (/\ entry = "adsr"
     /\ args.alpha.tag # "scalar" => Len(args.alpha.v) = 3
     /\ args.db_dev.tag # "scalar" => Len(args.db_dev.v) = 2
     /\ args.to_zero.tag # "scalar" => Len(args.to_zero.v) = 2) =>
        \A i \in 1..Len(calls) : calls[i] = SlicedCall(calls[i])

(* C10, as claimed: the attack, decay and release sample counts are        *)
(* duration_ms x sample_rate / 1000 rounded to the nearest integer, and    *)
(* the fallback Lambda is envelope_duration x sample_rate rounded to the   *)
(* nearest integer.                                                        *)
C10_RoundsToNearest ==
    (LengthsKnown /\ args.sample_rate > 0 /\ NonNegativeDurations) =>
        /\ loc.Lambda_A = IntRound(args.attack_duration * args.sample_rate, 1000)
        /\ loc.Lambda_D = IntRound(args.decay_duration * args.sample_rate, 1000)
        /\ loc.Lambda_R = IntRound(args.release_duration * args.sample_rate, 1000)
        /\ (sv.tag = "scalar" /\ args.number_of_samples = 0) =>
              loc.Lambda = IntRound(args.envelope_duration[1] * args.sample_rate,
                                    args.envelope_duration[2])

\* n is p/q truncated (p >= 0, q > 0) exactly when n * q <= p < (n + 1) * q.
IsTruncationOf(n, p, q) == n * q <= p /\ p < (n + 1) * q

(* C10, amended: for a positive sample rate and non-negative durations    *)
(* the attack, decay and release sample counts are duration_ms x           *)
(* sample_rate / 1000 truncated, and the fallback Lambda is                *)
(* envelope_duration x sample_rate truncated: a fractional part is         *)
(* dropped, however large.                                                 *)
C10_Truncates ==
    (LengthsKnown /\ args.sample_rate > 0 /\ NonNegativeDurations) =>
        /\ IsTruncationOf(loc.Lambda_A, args.attack_duration * args.sample_rate, 1000)
        /\ IsTruncationOf(loc.Lambda_D, args.decay_duration * args.sample_rate, 1000)
        /\ IsTruncationOf(loc.Lambda_R, args.release_duration * args.sample_rate, 1000)
        /\ (sv.tag = "scalar" /\ args.number_of_samples = 0) =>
              IsTruncationOf(loc.Lambda,
                             args.envelope_duration[1] * args.sample_rate,
                             args.envelope_duration[2])

\* Products with a fractional part above one half were converted: an attack
\* of 0.75 samples and an envelope of 1.75 samples.
C10_Witness ==
    /\ LengthsKnown /\ NonNegativeDurations
    /\ args.sample_rate = 1 /\ args.attack_duration = 750
    /\ args.envelope_duration = <<7, 4>>
    /\ sv.tag = "scalar" /\ args.number_of_samples = 0
    /\ loc.Lambda_A = 0 /\ loc.Lambda = 1

====
